---- MODULE Spec2Model ----
(***************************************************************************)
(* Model of `capture` (src/main.rs): a command-line wrapper that resolves  *)
(* a browser executable and runs the external `single-file` tool.          *)
(*                                                                         *)
(* One run of the process is modelled.  The process is single-threaded and *)
(* every subprocess call blocks, so `pc` is the position of main() and a   *)
(* blocking call is two steps: the spawn and the return of the wait.       *)
(*                                                                         *)
(* Option<T> is a sequence of length at most one: None == <<>>,            *)
(* Some(x) == <<x>>.  A printed line is the sequence of the string pieces  *)
(* the format macro writes.                                                *)
(***************************************************************************)
EXTENDS FiniteSets, Integers, Sequences, TLC

VARIABLES
    argv,       \* what the user put on the command line
    onPath,     \* environment: outcome of `which <candidate>` per list index
    pc,         \* position of main()
    cli,        \* Option<Cli>: the parsed request
    idx,        \* find_browser: index of the next candidate of the for loop
    located,    \* find_browser: "idle" (not called), "running", "returned"
    found,      \* Option<String>: the value find_browser returned
    browser,    \* Option<String>: the resolved browser
    lookups,    \* candidates for which a `which` lookup was issued, in order
    cmd,        \* Option<args>: argument list built for single-file
    launches,   \* argument lists with which single-file was started
    running,    \* child processes currently alive
    status,     \* Option<ExitStatus> of single-file
    stdout,     \* lines printed to standard output
    stderr,     \* lines printed to the error stream
    exitCode    \* Option<int>: exit code of this process once terminated

vars == <<argv, onPath, pc, cli, idx, located, found, browser, lookups, cmd,
          launches, running, status, stdout, stderr, exitCode>>

None == <<>>
Some(x) == <<x>>
IsSome(o) == o # <<>>
Unwrap(o) == o[1]

SeqToSet(s) == {s[k] : k \in DOMAIN s}

----------------------------------------------------------------------------
(* Constants of the program *)

FILENAME_TEMPLATE == "{url-hostname} - {date-iso} - {page-title}.{filename-extension}"

BROWSER_CANDIDATES ==
    <<"chrome", "chromium", "google-chrome", "google-chrome-stable", "chromium-browser">>

----------------------------------------------------------------------------
(* Inputs: command lines and environments *)

\* Values a user can give for the positional url.
UrlValues == {"", "https://example.com", "--filename-template"}

\* Values a user can give to --output / -o.
OutputValues == {"out.html", FILENAME_TEMPLATE}

\* Values a user can give to --browser / -b.
BrowserValues == {"", "/usr/bin/chromium"}

\* A command line, by what it contains: a help flag, an unrecognised flag,
\* or the three arguments of Cli, each given or not.
Argvs ==
    [kind : {"help", "unknown_flag"}, url : {None}, output : {None}, browser : {None}]
    \cup
    [kind : {"args"},
     url : {None} \cup {Some(u) : u \in UrlValues},
     output : {None} \cup {Some(o) : o \in OutputValues},
     browser : {None} \cup {Some(b) : b \in BrowserValues}]

\* Outcome of Command::new("which").arg(c).output():
\*   "found"   Ok(o), o.status.success()
\*   "missing" Ok(o), not o.status.success()
\*   "nospawn" Err(_): the lookup could not be started
LookupOutcomes == {"found", "missing", "nospawn"}

\* Exit statuses single-file can end with.
ExitStatuses ==
    {[kind |-> "exit", n |-> 0], [kind |-> "exit", n |-> 1], [kind |-> "signal", n |-> 9]}

----------------------------------------------------------------------------
(* Pure functions *)

\* ExitStatus::success
success(st) == st.kind = "exit" /\ st.n = 0

\* Display of ExitStatus
StatusDisplay(st) ==
    IF st.kind = "exit"
    THEN IF st.n = 0 THEN "exit status: 0" ELSE "exit status: 1"
    ELSE "signal: 9 (SIGKILL)"

\* [&str]::join
RECURSIVE join(_, _)
join(s, sep) ==
    IF Len(s) = 0 THEN <<>>
    ELSE IF Len(s) = 1 THEN <<s[1]>>
    ELSE <<s[1], sep>> \o join(Tail(s), sep)

\* Cli::parse (clap derive): the outcome for a command line.  `url` is a
\* required positional String, `output` and `browser` are Option<String>;
\* the derive adds -h/--help, which prints the help and exits successfully;
\* any other error prints the usage to the error stream and exits with 2.
\* A String argument accepts every value, the empty string included.
CliParseLenient(a) ==
    IF a.kind = "help" THEN [kind |-> "help", cli |-> None]
    ELSE IF a.kind = "unknown_flag" THEN [kind |-> "usage", cli |-> None]
    ELSE [kind |-> "ok",
          cli |-> Some([url |-> IF IsSome(a.url) THEN Unwrap(a.url) ELSE "",
                        output |-> a.output, browser |-> a.browser])]

CliParse(a) ==
    IF a.kind = "help" THEN [kind |-> "help", cli |-> None]
    ELSE IF a.kind = "unknown_flag" \/ a.url = None THEN [kind |-> "usage", cli |-> None]
    ELSE [kind |-> "ok",
          cli |-> Some([url |-> Unwrap(a.url), output |-> a.output, browser |-> a.browser])]

\* cli.browser.or_else(find_browser): find_browser is called only for None.
NeedsLocatorEager(b) == TRUE

NeedsLocator(b) == b = None

\* .map(|o| o.status.success()).unwrap_or(false) on the lookup's result.
LookupSucceededOnErr(r) == r # "missing"

LookupSucceeded(r) == r = "found"

\* The argument list main() gives to Command::new("single-file").
BuildArgsAlwaysTemplate(b, url, output) ==
    <<"--browser-executable-path", b, "--filename-template", FILENAME_TEMPLATE, url>>

BuildArgsNoTemplate(b, url, output) ==
    IF IsSome(output)
    THEN <<"--browser-executable-path", b, url, Unwrap(output)>>
    ELSE <<"--browser-executable-path", b, url>>

BuildArgs(b, url, output) ==
    IF IsSome(output)
    THEN <<"--browser-executable-path", b, url, Unwrap(output)>>
    ELSE <<"--browser-executable-path", b, "--filename-template", FILENAME_TEMPLATE, url>>

\* The two lines of the unwrap_or_else closure.
NoBrowserLinesShort ==
    << <<"No browser found.">>, <<"Specify one with --browser">> >>

NoBrowserLines ==
    << <<"No browser found. Tried: ">> \o join(BROWSER_CANDIDATES, ", "),
       <<"Specify one with --browser">> >>

----------------------------------------------------------------------------
(* The run *)

TypeOK ==
    /\ argv \in Argvs
    /\ onPath \in [DOMAIN BROWSER_CANDIDATES -> LookupOutcomes]
    /\ pc \in {"parse", "resolve", "probe", "probe_wait", "capture", "spawn", "wait", "done"}
    /\ idx \in 1..(Len(BROWSER_CANDIDATES) + 1)
    /\ located \in {"idle", "running", "returned"}
    /\ Len(found) <= 1 /\ Len(browser) <= 1 /\ Len(cli) <= 1
    /\ Len(cmd) <= 1 /\ Len(status) <= 1 /\ Len(exitCode) <= 1
    /\ running \subseteq {"which", "single-file"}

Init ==
    /\ argv \in Argvs
    /\ onPath \in [DOMAIN BROWSER_CANDIDATES -> LookupOutcomes]
    /\ pc = "parse"
    /\ cli = None
    /\ idx = 1
    /\ located = "idle"
    /\ found = None
    /\ browser = None
    /\ lookups = <<>>
    /\ cmd = None
    /\ launches = <<>>
    /\ running = {}
    /\ status = None
    /\ stdout = <<>>
    /\ stderr = <<>>
    /\ exitCode = None

\* let cli = Cli::parse();
Parse ==
    /\ pc = "parse"
    /\ LET r == CliParse(argv) IN
       /\ cli' = r.cli
       /\ IF r.kind = "ok"
          THEN /\ pc' = "resolve"
               /\ UNCHANGED <<stdout, stderr, exitCode>>
          ELSE IF r.kind = "help"
          THEN /\ pc' = "done"
               /\ stdout' = Append(stdout, <<"Usage: capture [OPTIONS] <URL>">>)
               /\ exitCode' = Some(0)
               /\ UNCHANGED stderr
          ELSE /\ pc' = "done"
               /\ stderr' = Append(stderr, <<"error: ", "Usage: capture [OPTIONS] <URL>">>)
               /\ exitCode' = Some(2)
               /\ UNCHANGED stdout
    /\ UNCHANGED <<argv, onPath, idx, located, found, browser, lookups, cmd,
                   launches, running, status>>

\* cli.browser.or_else(find_browser): Some(b) is kept, None calls find_browser.
ResolveBrowser ==
    /\ pc = "resolve"
    /\ LET c == Unwrap(cli) IN
       IF NeedsLocator(c.browser)
       THEN /\ pc' = "probe"
            /\ located' = "running"
            /\ idx' = 1
            /\ UNCHANGED browser
       ELSE /\ pc' = "capture"
            /\ browser' = c.browser
            /\ UNCHANGED <<located, idx>>
    /\ UNCHANGED <<argv, onPath, cli, found, lookups, cmd, launches, running,
                   status, stdout, stderr, exitCode>>

\* Option::or_else, on values.
or_else(o, f) == IF IsSome(o) THEN o ELSE f

\* find_browser, loop body once the lookup's result is known:
\* `return Some(candidate)` if it succeeded, else the next iteration.
LoopStepNoBreak ==
    /\ idx' = idx + 1
    /\ pc' = "probe"
    /\ UNCHANGED <<found, browser, located>>

LoopStep ==
    IF LookupSucceeded(onPath[idx])
    THEN /\ found' = Some(BROWSER_CANDIDATES[idx])
         /\ browser' = or_else(Unwrap(cli).browser, found')
         /\ located' = "returned"
         /\ pc' = "capture"
         /\ UNCHANGED idx
    ELSE /\ idx' = idx + 1
         /\ pc' = "probe"
         /\ UNCHANGED <<found, browser, located>>

\* find_browser, loop body: Command::new("which").arg(candidate).output()
\* starts the lookup and blocks; when it cannot be started the result is
\* an Err at once and no child exists.
SpawnWhichAsync ==
    /\ pc = "probe"
    /\ idx <= Len(BROWSER_CANDIDATES)
    /\ lookups' = Append(lookups, BROWSER_CANDIDATES[idx])
    /\ IF onPath[idx] = "nospawn"
       THEN LoopStep /\ UNCHANGED running
       ELSE /\ running' = running \cup {"which"}
            /\ found' = Some(BROWSER_CANDIDATES[idx])
            /\ browser' = or_else(Unwrap(cli).browser, found')
            /\ located' = "returned"
            /\ pc' = "capture"
            /\ UNCHANGED idx
    /\ UNCHANGED <<argv, onPath, cli, cmd, launches, status, stdout, stderr, exitCode>>

SpawnWhich ==
    /\ pc = "probe"
    /\ idx <= Len(BROWSER_CANDIDATES)
    /\ lookups' = Append(lookups, BROWSER_CANDIDATES[idx])
    /\ IF onPath[idx] = "nospawn"
       THEN LoopStep /\ UNCHANGED running
       ELSE /\ running' = running \cup {"which"}
            /\ pc' = "probe_wait"
            /\ UNCHANGED <<idx, found, browser, located>>
    /\ UNCHANGED <<argv, onPath, cli, cmd, launches, status, stdout, stderr, exitCode>>

\* find_browser, loop body: output() returns once the lookup has exited.
WhichReturns ==
    /\ pc = "probe_wait"
    /\ running' = running \ {"which"}
    /\ LoopStep
    /\ UNCHANGED <<argv, onPath, cli, lookups, cmd, launches, status, stdout,
                   stderr, exitCode>>

\* find_browser falls out of the loop and returns None; unwrap_or_else
\* prints the two lines and calls std::process::exit(1).
BrowserNotFound ==
    /\ pc = "probe"
    /\ idx > Len(BROWSER_CANDIDATES)
    /\ located' = "returned"
    /\ found' = None
    /\ LET b == or_else(Unwrap(cli).browser, found') IN
       IF IsSome(b)
       THEN /\ browser' = b
            /\ pc' = "capture"
            /\ UNCHANGED <<stderr, exitCode>>
       ELSE /\ stderr' = stderr \o NoBrowserLines
            /\ exitCode' = Some(1)
            /\ pc' = "done"
            /\ UNCHANGED browser
    /\ UNCHANGED <<argv, onPath, cli, idx, lookups, cmd, launches, running,
                   status, stdout>>

\* println!("Capturing {}", cli.url); and the construction of cmd.
BuildCommand ==
    /\ pc = "capture"
    /\ LET c == Unwrap(cli) IN
       /\ stdout' = Append(stdout, <<"Capturing ", c.url>>)
       /\ cmd' = Some(BuildArgs(Unwrap(browser), c.url, c.output))
    /\ pc' = "spawn"
    /\ UNCHANGED <<argv, onPath, cli, idx, located, found, browser, lookups,
                   launches, running, status, stderr, exitCode>>

\* How a panic in main ends the process: exit code 101 when the build
\* unwinds (the default), abort by SIGABRT (seen as 134) with panic=abort.
PanicExits == {101, 134}

\* cmd.status(): the child starts, or status() is Err and expect() panics:
\* the panic message goes to the error stream and the process ends.
SpawnSingleFileRetry ==
    /\ pc = "spawn"
    /\ \E started \in BOOLEAN :
        IF started
        THEN /\ launches' = Append(launches, Unwrap(cmd))
             /\ running' = running \cup {"single-file"}
             /\ pc' = "wait"
             /\ UNCHANGED <<stderr, exitCode>>
        ELSE /\ stderr' = Append(stderr, <<"Failed to execute single-file">>)
             /\ Len(stderr) < 2
             /\ UNCHANGED <<pc, exitCode, launches, running>>
    /\ UNCHANGED <<argv, onPath, cli, idx, located, found, browser, lookups,
                   cmd, status, stdout>>

SpawnSingleFile ==
    /\ pc = "spawn"
    /\ \E started \in BOOLEAN :
        IF started
        THEN /\ launches' = Append(launches, Unwrap(cmd))
             /\ running' = running \cup {"single-file"}
             /\ pc' = "wait"
             /\ UNCHANGED <<stderr, exitCode>>
        ELSE /\ stderr' = Append(stderr,
                    <<"thread 'main' panicked at src/main.rs:66: ",
                      "Failed to execute single-file">>)
             /\ \E code \in PanicExits : exitCode' = Some(code)
             /\ pc' = "done"
             /\ UNCHANGED <<launches, running>>
    /\ UNCHANGED <<argv, onPath, cli, idx, located, found, browser, lookups,
                   cmd, status, stdout>>

\* status() returns the child's exit status; success prints "Done" and main
\* returns (exit code 0), anything else prints the status and exit(1).
SingleFileExitsQuiet ==
    /\ pc = "wait"
    /\ \E st \in ExitStatuses :
        /\ status' = Some(st)
        /\ stdout' = Append(stdout, <<"Done">>)
        /\ exitCode' = Some(0)
        /\ UNCHANGED stderr
    /\ running' = running \ {"single-file"}
    /\ pc' = "done"
    /\ UNCHANGED <<argv, onPath, cli, idx, located, found, browser, lookups,
                   cmd, launches>>

SingleFileExits ==
    /\ pc = "wait"
    /\ \E st \in ExitStatuses :
        /\ status' = Some(st)
        /\ IF success(st)
           THEN /\ stdout' = Append(stdout, <<"Done">>)
                /\ exitCode' = Some(0)
                /\ UNCHANGED stderr
           ELSE /\ stderr' = Append(stderr,
                       <<"single-file failed with status: ", StatusDisplay(st)>>)
                /\ exitCode' = Some(1)
                /\ UNCHANGED stdout
    /\ running' = running \ {"single-file"}
    /\ pc' = "done"
    /\ UNCHANGED <<argv, onPath, cli, idx, located, found, browser, lookups,
                   cmd, launches>>

Next ==
    \/ Parse
    \/ ResolveBrowser
    \/ SpawnWhich
    \/ WhichReturns
    \/ BrowserNotFound
    \/ BuildCommand
    \/ SpawnSingleFile
    \/ SingleFileExits

Spec == Init /\ [][Next]_vars

----------------------------------------------------------------------------
(* Vocabulary of the properties *)

Request == Unwrap(cli)

\* The lowest list index whose lookup reports the candidate available.
Available == {i \in DOMAIN BROWSER_CANDIDATES : onPath[i] = "found"}
FirstAvailable == CHOOSE i \in Available : \A j \in Available : i <= j

\* Every argument list single-file was built or started with.
ArgLists == SeqToSet(launches) \cup SeqToSet(cmd)

Printed(stream, piece) == \E k \in DOMAIN stream : piece \in SeqToSet(stream[k])

SingleFileSucceeded == launches # <<>> /\ IsSome(status) /\ success(Unwrap(status))
SingleFileFailed == launches # <<>> /\ IsSome(status) /\ ~success(Unwrap(status))
LaunchFailed == Printed(stderr, "Failed to execute single-file")

----------------------------------------------------------------------------
(* Properties *)

\* C1 (as stated): with an output given, the argument list of single-file is
\* [--browser-executable-path, browser, url, output], the output path is
\* last, and the list contains neither the --filename-template flag nor the
\* template string.
C1_NeverContainsTemplate ==
    (IsSome(cli) /\ IsSome(Request.output)) =>
        \A args \in ArgLists :
            /\ args = <<"--browser-executable-path", Unwrap(browser), Request.url,
                        Unwrap(Request.output)>>
            /\ args[Len(args)] = Unwrap(Request.output)
            /\ "--filename-template" \notin SeqToSet(args)
            /\ FILENAME_TEMPLATE \notin SeqToSet(args)

\* C1 (amended): with an output given, the argument list of single-file is
\* exactly [--browser-executable-path, browser, url, output] with the output
\* path last; the flag --filename-template or the template string occurs in
\* it only where the user's own browser, url or output value is that string.
C1_ExplicitOutputArgs ==
    (IsSome(cli) /\ IsSome(Request.output)) =>
        \A args \in ArgLists :
            /\ args = <<"--browser-executable-path", Unwrap(browser), Request.url,
                        Unwrap(Request.output)>>
            /\ args[Len(args)] = Unwrap(Request.output)
            /\ \A k \in DOMAIN args :
                 args[k] \in {"--filename-template", FILENAME_TEMPLATE} =>
                    \/ k = 2 /\ args[k] = Unwrap(browser)
                    \/ k = 3 /\ args[k] = Request.url
                    \/ k = 4 /\ args[k] = Unwrap(Request.output)

C1_Witness ==
    /\ pc = "wait"
    /\ IsSome(Request.output)
    /\ Unwrap(Request.output) = "out.html"
    /\ Request.url = "https://example.com"
    /\ launches = << <<"--browser-executable-path", "/usr/bin/chromium",
                       "https://example.com", "out.html">> >>

\* C2: with no output given, the argument list of single-file is exactly
\* [--browser-executable-path, browser, --filename-template,
\* FILENAME_TEMPLATE, url]: the template is the constant, unchanged, and no
\* output path is passed.
C2_TemplatedArgs ==
    (IsSome(cli) /\ Request.output = None) =>
        \A args \in ArgLists :
            /\ args = <<"--browser-executable-path", Unwrap(browser),
                        "--filename-template",
                        "{url-hostname} - {date-iso} - {page-title}.{filename-extension}",
                        Request.url>>
            /\ Len(args) = 5
            /\ args[Len(args)] = Request.url

C2_Witness ==
    /\ pc = "wait"
    /\ Request.output = None
    /\ launches = << <<"--browser-executable-path", "chrome", "--filename-template",
                       FILENAME_TEMPLATE, "https://example.com">> >>

\* C3: find_browser returns the candidate of lowest list index whose lookup
\* reports it available, and None exactly when no candidate is available.
C3_FirstAvailableReturned ==
    located = "returned" =>
        /\ (Available # {} => found = Some(BROWSER_CANDIDATES[FirstAvailable]))
        /\ (found = None <=> Available = {})

C3_Witness ==
    /\ located = "returned"
    /\ Available = {3, 5}
    /\ found = Some("google-chrome")

\* C4: with no --browser and no candidate available, the run ends with exit
\* code 1 and a diagnostic naming every candidate on the error stream;
\* single-file is never invoked and neither "Capturing" nor "Done" is
\* printed.
C4_NoBrowserExit ==
    (IsSome(cli) /\ Request.browser = None /\ Available = {}) =>
        /\ cmd = None /\ launches = <<>> /\ "single-file" \notin running
        /\ ~Printed(stdout, "Capturing ") /\ ~Printed(stdout, "Done")
        /\ pc \in {"resolve", "probe", "probe_wait", "done"}
        /\ pc = "done" =>
              /\ exitCode = Some(1)
              /\ \E k \in DOMAIN stderr :
                    \A i \in DOMAIN BROWSER_CANDIDATES :
                        BROWSER_CANDIDATES[i] \in SeqToSet(stderr[k])

C4_Witness ==
    /\ pc = "done"
    /\ IsSome(cli) /\ Request.browser = None /\ Available = {}
    /\ Len(lookups) = Len(BROWSER_CANDIDATES)
    /\ exitCode = Some(1)

\* C5: with --browser given, find_browser is never called, no lookup is
\* spawned for any candidate, and the browser handed to single-file is the
\* given value whichever candidates are available.
C5_ExplicitBrowserWins ==
    (IsSome(cli) /\ IsSome(Request.browser)) =>
        /\ located = "idle"
        /\ lookups = <<>>
        /\ "which" \notin running
        /\ found = None
        /\ \A args \in ArgLists : args[2] = Unwrap(Request.browser)

C5_Witness ==
    /\ pc = "wait"
    /\ IsSome(Request.browser)
    /\ Available # {}
    /\ launches # <<>> /\ launches[1][2] = "/usr/bin/chromium"

\* C6 (as stated): the program ends with exit code 0 if and only if
\* single-file was started and exited with success.
C6_ZeroIffSingleFileSucceeded ==
    pc = "done" => (exitCode = Some(0) <=> SingleFileSucceeded)

\* C6 (amended): for a command line that is not a help request, the program
\* ends with exit code 0 if and only if single-file was started and exited
\* with success (a help request also ends with 0, without single-file);
\* "Done" is printed in exactly the runs where single-file succeeded, and
\* when single-file ends with a non-zero or abnormal status that status is
\* written to the error stream and the exit code is 1, without "Done".
C6_ExitCodeFollowsSingleFile ==
    pc = "done" =>
        /\ exitCode = Some(0) <=> (argv.kind = "help" \/ SingleFileSucceeded)
        /\ argv.kind = "help" => launches = <<>>
        /\ Printed(stdout, "Done") <=> SingleFileSucceeded
        /\ SingleFileFailed =>
              /\ exitCode = Some(1)
              /\ stderr[Len(stderr)] =
                    <<"single-file failed with status: ", StatusDisplay(Unwrap(status))>>
              /\ ~Printed(stdout, "Done")

C6_Witness ==
    /\ pc = "done"
    /\ SingleFileFailed
    /\ Unwrap(status).kind = "signal"
    /\ exitCode = Some(1)

\* C7 (as stated): when single-file cannot be started, the program ends
\* with exit code 1.
C7_LaunchFailureExitsOne ==
    LaunchFailed => exitCode = Some(1)

\* C7 (amended): when single-file cannot be started, the program ends at
\* once by the panic of expect(): the failure is reported on the error
\* stream and the exit status is that of a panic (101, or abort when built
\* with panic=abort), which is neither 0 nor 1; single-file is not started
\* afterwards, nothing else is run, and "Done" is not printed.
C7_LaunchFailurePanics ==
    LaunchFailed =>
        /\ pc = "done"
        /\ IsSome(exitCode) /\ Unwrap(exitCode) \in PanicExits
        /\ Unwrap(exitCode) \notin {0, 1}
        /\ Len(stderr) = 1
        /\ launches = <<>> /\ running = {} /\ status = None
        /\ ~Printed(stdout, "Done")

C7_Witness ==
    /\ LaunchFailed
    /\ pc = "done"
    /\ IsSome(cmd)
    /\ exitCode = Some(101)

\* C8 (as stated): every parsed request has a non-empty url; no browser is
\* probed and single-file is not invoked with an empty url.
C8_UrlNonEmpty ==
    /\ IsSome(cli) => Request.url # ""
    /\ (lookups # <<>> \/ launches # <<>>) => Request.url # ""

\* C8 (amended): every parsed request has a url, which is exactly the
\* positional argument given and may be the empty string; without a url
\* argument no request is produced, no browser is probed and single-file is
\* not invoked.
C8_UrlIsTheArgument ==
    /\ IsSome(cli) => (IsSome(argv.url) /\ Request.url = Unwrap(argv.url))
    /\ (lookups # <<>> \/ ArgLists # {} \/ running # {}) => IsSome(cli)
    /\ \A args \in ArgLists :
          IsSome(argv.url) /\ Unwrap(argv.url) \in SeqToSet(args)

C8_Witness ==
    /\ pc = "wait"
    /\ Request.url = ""
    /\ lookups # <<>>
    /\ launches # <<>> /\ "" \in SeqToSet(launches[1])

C10_SpawnFailureIsUnavailable ==
    /\ \A k \in DOMAIN lookups :
          onPath[k] = "nospawn" =>
             /\ found # Some(BROWSER_CANDIDATES[k])
             /\ (pc \in {"probe", "probe_wait"} /\ k < idx) => exitCode = None
             /\ (pc = "done" /\ Available = {}) => Len(lookups) = Len(BROWSER_CANDIDATES)
    /\ (pc \in {"probe", "probe_wait"}) => Len(lookups) \in {idx - 1, idx}
    /\ (located # "idle" /\ pc = "done" /\ \A i \in DOMAIN onPath : onPath[i] = "nospawn") =>
          /\ found = None
          /\ exitCode = Some(1)
          /\ stderr = NoBrowserLines
          /\ launches = <<>>

C10_Witness ==
    /\ pc = "done"
    /\ located = "returned"
    /\ \A i \in DOMAIN onPath : onPath[i] = "nospawn"
    /\ Len(lookups) = 5
    /\ exitCode = Some(1)

====
